---- MODULE Spec2Model ----
(***************************************************************************)
(* BM25SRetriever (backend/open_webui/retrieval/bm25s_adapter.py).         *)
(*                                                                         *)
(* State: the retriever's fields texts, metadatas and k, the module flag   *)
(* BM25S_AVAILABLE, and what each _get_relevant_documents call returned.   *)
(* Document ids are 1-based positions in texts (Python's 0-based + 1).     *)
(* A text is a sequence of words.  A metadata mapping is a record with the *)
(* keys "tag" and "score"; NoTag / NoScore stand for "key not in mapping". *)
(* The bm25s library is outside the repository: its scorer is abstracted   *)
(* by an integer score that is a pure function of the query, the document  *)
(* text and the corpus statistics, and an exception raised by it is an     *)
(* input (fault) fixed per retriever and query.                            *)
(***************************************************************************)
EXTENDS Integers, Sequences, FiniteSets, TLC

\* ---- bounds of the model ----
MaxDocs == 2
MaxK == 2

\* ---- values ----
NoScore == -1
SuppliedScore == 50
NoTag == "none"
TextVals == {<<"cat">>, <<"cat", "dog">>}
Queries == {<<"cat">>, <<"dog">>}
EmptyMeta == [tag |-> NoTag, score |-> NoScore]
MetaChoices ==
    { [tag |-> "a", score |-> NoScore],
      [tag |-> "b", score |-> NoScore],
      [tag |-> "a", score |-> SuppliedScore] }

SeqsUpTo(S, n) == UNION { [1..m -> S] : m \in 0..n }

\* Faults of the backend for one query: the tokenizer/retrieve call raises
\* (kind "backend"), or its output is malformed at the at-th selected
\* document so that converting it raises (kind "convert").
NoFault == [kind |-> "none", q |-> <<>>, at |-> 0]
Faults ==
    {NoFault}
    \cup { [kind |-> "backend", q |-> q, at |-> 0] : q \in Queries }
    \cup { [kind |-> "convert", q |-> q, at |-> a] : q \in Queries, a \in 1..MaxK }

NoOutcome == [status |-> "none", docs |-> <<>>, logged |-> FALSE]

VARIABLES
    BM25S_AVAILABLE,  \* module flag set by the import at load time
    texts,            \* self.texts (constructor argument, then field)
    metadatas,        \* self.metadatas (constructor argument, then field)
    k,                \* self.k
    fault,            \* the backend's fault, fixed for the retriever
    retriever,        \* self._retriever: per query, the (results, scores) it returns
    constructed,      \* "pending" | "ok" | "failed"
    metadatas0,       \* metadatas as they were right after construction
    lastQuery,        \* query of the most recent call (<<>> before any)
    outcome,          \* what the most recent call did
    last,             \* per query: outcome of its most recent call
    prev,             \* per query: outcome of the call before that one
    pc,               \* per caller thread: where it is in _get_relevant_documents
    tq,               \* per thread: its query
    idx,              \* per thread: the loop variable i (1-based)
    docs,             \* per thread: its local list documents
    cur,              \* per thread: doc_idx of the mapping its local metadata
                      \* refers to, 0 when that is the fresh {} of line 82
    fresh             \* per thread: that fresh mapping

seqVars == <<lastQuery, outcome, last, prev>>
objVars == <<BM25S_AVAILABLE, texts, k, fault, retriever, constructed, metadatas0>>
concVars == <<pc, tq, idx, docs, cur, fresh>>
vars == <<BM25S_AVAILABLE, texts, metadatas, k, fault, retriever, constructed, metadatas0,
          lastQuery, outcome, last, prev, pc, tq, idx, docs, cur, fresh>>

Threads == {1, 2}

Min(a, b) == IF a < b THEN a ELSE b
Max(a, b) == IF a > b THEN a ELSE b

\* ---- the scoring backend (self._retriever.retrieve) ----
TF(t, text) == Cardinality({p \in 1..Len(text) : text[p] = t})
DF(t) == Cardinality({d \in 1..Len(texts) : TF(t, texts[d]) > 0})

\* contribution of one query term to a document's score: grows with the
\* term's rarity and frequency, shrinks with the document's length, and is
\* 0 when the document does not contain the term
TermScore(t, d) ==
    ((Len(texts) - DF(t) + 1) * TF(t, texts[d]) * 12)
        \div (TF(t, texts[d]) + Len(texts[d]))

RECURSIVE SumTerms(_, _, _)
SumTerms(q, p, d) ==
    IF p > Len(q) THEN 0 ELSE TermScore(q[p], d) + SumTerms(q, p + 1, d)

Score(q, d) == SumTerms(q, 1, d)

Before(q, a, b) ==
    Score(q, a) > Score(q, b) \/ (Score(q, a) = Score(q, b) /\ a < b)

Rank(q, d) == 1 + Cardinality({e \in 1..Len(texts) : Before(q, e, d)})

\* ids of the top-k documents, best first (results[0, :] as ids)
TopK(q) ==
    [p \in 1..Min(Max(k, 0), Len(texts)) |->
        CHOOSE d \in 1..Len(texts) : Rank(q, d) = p]

\* the index built by lines 41-43 answers every query the same way for the
\* retriever's lifetime: ids[i] is the document behind results[0, i] and
\* scores[i] is scores[0, i]
BuildIndex ==
    [q \in Queries |->
        [ids |-> TopK(q),
         scores |-> [p \in 1..Min(Max(k, 0), Len(texts)) |-> Score(q, TopK(q)[p])]]]

NoIndex == [q \in Queries |-> [ids |-> <<>>, scores |-> <<>>]]

BackendRaises(q) == fault.kind = "backend" /\ fault.q = q
ConvertRaises(q, i) == fault.kind = "convert" /\ fault.q = q /\ fault.at = i

\* ---- result assembly (lines 76-99) ----
\* self.texts.index(doc_text): first position holding an equal text
IndexOf(doc_text) ==
    CHOOSE d \in 1..Len(texts) :
        /\ texts[d] = doc_text
        /\ \A e \in 1..Len(texts) : texts[e] = doc_text => d <= e

\* line 82
LookupMetadata(metas, doc_idx) ==
    IF doc_idx <= Len(metas) THEN metas[doc_idx] ELSE EmptyMeta

\* lines 86-87: the mapping after the conditional assignment of 'score'
SetScore(metadata, score_value) ==
    IF metadata.score = NoScore
        THEN [metadata EXCEPT !.score = score_value]
        ELSE metadata

\* variant: the Document is built from the mapping as line 82 read it,
\* before lines 86-87 write the score
DocMetadataBeforeWrite(metadata, score_value) == metadata

\* line 88: the metadata the Document is built from is the mapping that
\* lines 86-87 have just written
DocMetadata(metadata, score_value) == SetScore(metadata, score_value)

\* the stored list after lines 79-87 ran for results[0, i] of query q
StoreAfter(metas, q, i) ==
    LET doc_idx == IndexOf(texts[retriever[q].ids[i]])
    IN  IF doc_idx <= Len(metas)
            THEN [metas EXCEPT
                    ![doc_idx] = SetScore(metas[doc_idx], retriever[q].scores[i])]
            ELSE metas

\* the Document appended at line 88 for results[0, i] of query q
NewDocument(metas, q, i) ==
    LET doc_text == texts[retriever[q].ids[i]]
    IN  [page_content |-> doc_text,
         metadata |-> DocMetadata(LookupMetadata(metas, IndexOf(doc_text)),
                                  retriever[q].scores[i])]

\* the for loop of lines 78-95 inside the try of lines 77/96: an exception
\* at the i-th document leaves the loop and keeps what was appended
RECURSIVE Convert(_, _, _, _)
Convert(q, i, metas, ds) ==
    IF i > Len(retriever[q].ids)
        THEN [metas |-> metas, docs |-> ds, logged |-> FALSE]
    ELSE IF ConvertRaises(q, i)
        THEN [metas |-> metas, docs |-> ds, logged |-> TRUE]
    ELSE Convert(q, i + 1, StoreAfter(metas, q, i),
                 Append(ds, NewDocument(metas, q, i)))

\* one whole call on a retriever whose stored metadata is metas
Call(q, metas) ==
    IF BackendRaises(q)
        THEN [status |-> "raised", docs |-> <<>>, logged |-> FALSE, metas |-> metas]
        ELSE LET r == Convert(q, 1, metas, <<>>)
             IN  [status |-> "returned", docs |-> r.docs, logged |-> r.logged,
                  metas |-> r.metas]

Outcome(c) == [status |-> c.status, docs |-> c.docs, logged |-> c.logged]

\* ---- specification: one caller at a time ----
Idle(p) ==
    /\ retriever = NoIndex
    /\ constructed = "pending"
    /\ metadatas0 = metadatas
    /\ lastQuery = <<>>
    /\ outcome = NoOutcome
    /\ last = [q \in Queries |-> NoOutcome]
    /\ prev = [q \in Queries |-> NoOutcome]
    /\ pc = [t \in Threads |-> p]
    /\ idx = [t \in Threads |-> 0]
    /\ docs = [t \in Threads |-> <<>>]
    /\ cur = [t \in Threads |-> 0]
    /\ fresh = [t \in Threads |-> EmptyMeta]
    /\ tq = [t \in Threads |-> <<>>]

Init ==
    /\ BM25S_AVAILABLE \in BOOLEAN
    /\ texts \in SeqsUpTo(TextVals, MaxDocs)
    /\ metadatas \in SeqsUpTo(MetaChoices, MaxDocs)
    /\ k \in 0..MaxK
    /\ fault \in Faults
    /\ Idle("off")

\* __init__, lines 30-50
Construct ==
    /\ constructed = "pending"
    /\ constructed' = IF BM25S_AVAILABLE THEN "ok" ELSE "failed"
    /\ retriever' = IF BM25S_AVAILABLE THEN BuildIndex ELSE NoIndex
    /\ UNCHANGED <<BM25S_AVAILABLE, texts, metadatas, k, fault, metadatas0>>
    /\ UNCHANGED seqVars
    /\ UNCHANGED concVars

\* _get_relevant_documents, lines 52-99
Retrieve(q) ==
    /\ constructed = "ok"
    /\ LET c == Call(q, metadatas)
       IN  /\ metadatas' = c.metas
           /\ outcome' = Outcome(c)
           /\ last' = [last EXCEPT ![q] = Outcome(c)]
           /\ prev' = [prev EXCEPT ![q] = last[q]]
    /\ lastQuery' = q
    /\ UNCHANGED objVars
    /\ UNCHANGED concVars

Next == Construct \/ \E q \in Queries : Retrieve(q)

Spec == Init /\ [][Next]_vars

\* ---- specification: two callers on one retriever, no coordination ----
ConcInit ==
    /\ BM25S_AVAILABLE = TRUE
    /\ texts \in SeqsUpTo(TextVals, MaxDocs)
    /\ metadatas \in SeqsUpTo(MetaChoices, MaxDocs)
    /\ Len(texts) = Len(metadatas)
    /\ k \in 1..MaxK
    /\ fault \in Faults
    /\ Idle("idle")

\* the mapping the thread's local variable metadata refers to
CurMeta(t) == IF cur[t] = 0 THEN fresh[t] ELSE metadatas[cur[t]]

\* lines 57-76: tokenize, backend retrieve, documents = []
T_Start(t, q) ==
    /\ constructed = "ok"
    /\ pc[t] = "idle"
    /\ \A u \in Threads : tq[u] # q
    /\ tq' = [tq EXCEPT ![t] = q]
    /\ pc' = [pc EXCEPT ![t] = IF BackendRaises(q) THEN "raised" ELSE "loop"]
    /\ idx' = [idx EXCEPT ![t] = 1]
    /\ docs' = [docs EXCEPT ![t] = <<>>]
    /\ UNCHANGED <<cur, fresh, metadatas>>
    /\ UNCHANGED objVars
    /\ UNCHANGED seqVars

\* lines 78-82: next i, doc_text, doc_idx, metadata; the loop's end or an
\* exception leads to the return of line 99
T_Loop(t) ==
    /\ pc[t] = "loop"
    /\ IF idx[t] > Len(retriever[tq[t]].ids) \/ ConvertRaises(tq[t], idx[t])
         THEN /\ pc' = [pc EXCEPT ![t] = "done"]
              /\ UNCHANGED <<cur, fresh>>
         ELSE LET doc_idx == IndexOf(texts[retriever[tq[t]].ids[idx[t]]])
              IN  /\ cur' = [cur EXCEPT
                        ![t] = IF doc_idx <= Len(metadatas) THEN doc_idx ELSE 0]
                  /\ fresh' = [fresh EXCEPT ![t] = EmptyMeta]
                  /\ pc' = [pc EXCEPT ![t] = "check"]
    /\ UNCHANGED <<tq, idx, docs, metadatas>>
    /\ UNCHANGED objVars
    /\ UNCHANGED seqVars

\* lines 84-86: the test 'score' not in metadata
T_Check(t) ==
    /\ pc[t] = "check"
    /\ pc' = [pc EXCEPT ![t] = IF CurMeta(t).score = NoScore THEN "set" ELSE "append"]
    /\ UNCHANGED <<tq, idx, docs, cur, fresh, metadatas>>
    /\ UNCHANGED objVars
    /\ UNCHANGED seqVars

\* line 87: metadata['score'] = score_value
T_Set(t) ==
    /\ pc[t] = "set"
    /\ LET score_value == retriever[tq[t]].scores[idx[t]]
       IN  IF cur[t] = 0
             THEN /\ fresh' = [fresh EXCEPT ![t].score = score_value]
                  /\ UNCHANGED metadatas
             ELSE /\ metadatas' = [metadatas EXCEPT ![cur[t]].score = score_value]
                  /\ UNCHANGED fresh
    /\ pc' = [pc EXCEPT ![t] = "append"]
    /\ UNCHANGED <<tq, idx, docs, cur>>
    /\ UNCHANGED objVars
    /\ UNCHANGED seqVars

\* line 88: documents.append(Document(page_content=doc_text, metadata=metadata))
T_Append(t) ==
    /\ pc[t] = "append"
    /\ docs' = [docs EXCEPT ![t] = Append(@,
                  [page_content |-> texts[retriever[tq[t]].ids[idx[t]]],
                   metadata |-> CurMeta(t)])]
    /\ idx' = [idx EXCEPT ![t] = @ + 1]
    /\ pc' = [pc EXCEPT ![t] = "loop"]
    /\ UNCHANGED <<tq, cur, fresh, metadatas>>
    /\ UNCHANGED objVars
    /\ UNCHANGED seqVars

ConcNext ==
    \/ Construct
    \/ \E t \in Threads, q \in Queries : T_Start(t, q)
    \/ \E t \in Threads : T_Loop(t)
    \/ \E t \in Threads : T_Check(t)
    \/ \E t \in Threads : T_Set(t)
    \/ \E t \in Threads : T_Append(t)

ConcSpec == ConcInit /\ [][ConcNext]_vars

\* ---- properties ----
\* The properties of calls are stated for retrievers built from arguments
\* the construction contract accepts (ValidArgs).
\* arguments the construction contract accepts
ValidArgs == Len(texts) = Len(metadatas0) /\ k > 0
Called == ValidArgs /\ outcome.status # "none"
Returned == ValidArgs /\ outcome.status = "returned"
Ids == retriever[lastQuery].ids
Scores == retriever[lastQuery].scores

\* C1: after any sequence of retrieve calls the stored texts and every stored
\* metadata mapping equal what they were right after construction.
C1_StoredMetadataUnchanged ==
    (constructed = "ok" /\ ValidArgs) => metadatas = metadatas0

\* C2: the 'score' of every returned result is the score the backend
\* computed for that document against the current query.
C2_ScoreIsCurrent ==
    Returned =>
        \A p \in 1..Len(outcome.docs) : outcome.docs[p].metadata.score = Scores[p]

\* C3: when two documents with equal text and different metadata are both
\* selected, each one's result carries that document's own metadata.
C3_DuplicatesKeepOwnMetadata ==
    (Returned /\ ~outcome.logged) =>
        \A p, r \in 1..Len(outcome.docs) :
            (/\ Ids[p] < Ids[r]
             /\ texts[Ids[p]] = texts[Ids[r]]
             /\ metadatas0[Ids[p]].tag # metadatas0[Ids[r]].tag)
            => /\ outcome.docs[p].metadata.tag = metadatas0[Ids[p]].tag
               /\ outcome.docs[r].metadata.tag = metadatas0[Ids[r]].tag

\* C4: construction fails, and no retriever exists, whenever the numbers of
\* texts and metadatas differ or k <= 0.
C4_ConstructionRejectsInvalid ==
    (Len(texts) # Len(metadatas0) \/ k <= 0) => constructed # "ok"

\* C5: a call during which the backend raises returns the empty list, logs
\* the error and does not raise.
C5_BackendErrorContained ==
    (Called /\ BackendRaises(lastQuery)) =>
        (Returned /\ outcome.docs = <<>> /\ outcome.logged)

\* C6: the 'score' values of a returned list are non-increasing.
C6_ScoresNonIncreasing ==
    Returned =>
        \A p \in 1..(Len(outcome.docs) - 1) :
            outcome.docs[p].metadata.score >= outcome.docs[p + 1].metadata.score

\* C7: two calls with the same query, with only retrieve calls in between,
\* return the same ordered list (texts, metadata, scores).
C7_Idempotent ==
    \A q \in Queries : prev[q].status # "none" => last[q] = prev[q]

\* C7 witness: a query answered twice with a non-empty list while the other
\* query was served too and the stored metadata has been written.
C7_Witness ==
    \E q \in Queries :
        /\ prev[q].status = "returned"
        /\ Len(last[q].docs) >= 2
        /\ \A r \in Queries : last[r].status = "returned"
        /\ metadatas # metadatas0

\* C8: each of two concurrent calls with different queries returns the list
\* it would return alone on a freshly constructed retriever.
C8_ConcurrentAsAlone ==
    \A t \in Threads :
        pc[t] = "done" => docs[t] = Call(tq[t], metadatas0).docs

\* C9: for k > 0 every call returns, without error, at most min(k, n)
\* results, and the empty list for the empty corpus.
C9_BoundedNoError ==
    Called =>
        /\ Returned
        /\ Len(outcome.docs) <= Min(k, Len(texts))
        /\ (Len(texts) = 0 => outcome.docs = <<>>)

\* C10: a call whose conversion of the backend's output raises returns the
\* empty list, whichever document it raised at.
C10_ConvertErrorGivesEmpty ==
    (Returned /\ outcome.logged) => outcome.docs = <<>>

====
